---- MODULE Spec2Model ----
(***************************************************************************)
(* Model of customer_pricing (src/spreadsheet.py): the fixed-point price   *)
(* resolver compute_final_price and the single-pass driver main.           *)
(*                                                                         *)
(* Amounts (Python floats in the source) are modelled as unsigned decimal  *)
(* fixed-point numbers with 10 fractional digits, stored as little-endian  *)
(* sequences of base-10000 limbs without leading zero limbs.  Every        *)
(* multiplication by a rate and every division rounds to the nearest       *)
(* representable value (ties to even), as float operations do.  Rates are  *)
(* the decimal literals of the source, kept as numerator and denominator.  *)
(* Only non-negative amounts and rates in [0, 1] are modelled.             *)
(***************************************************************************)
EXTENDS Integers, Sequences, FiniteSets, TLC

\* ------------------------------------------------------------------------
\* Arithmetic on amounts
\* ------------------------------------------------------------------------

\* Radix of one limb of an amount.
Base == 10000

\* Number of limbs below one cent: an amount is a count of 1e-10 units, so
\* one cent is Base^CentLimbs units.
CentLimbs == 2

Zero == <<>>

RECURSIVE Norm(_)
\* Drop the most significant limbs that are zero.
Norm(x) ==
    IF x = <<>> THEN x
    ELSE IF x[Len(x)] = 0 THEN Norm(SubSeq(x, 1, Len(x) - 1))
    ELSE x

RECURSIVE AddC(_, _, _)
AddC(x, y, c) ==
    IF x = <<>> /\ y = <<>> THEN (IF c = 0 THEN <<>> ELSE <<c>>)
    ELSE LET a == IF x = <<>> THEN 0 ELSE Head(x)
             b == IF y = <<>> THEN 0 ELSE Head(y)
             s == a + b + c
         IN  <<s % Base>> \o AddC(IF x = <<>> THEN x ELSE Tail(x),
                                  IF y = <<>> THEN y ELSE Tail(y),
                                  s \div Base)

\* x + y
Add(x, y) == AddC(x, y, 0)

RECURSIVE SubB(_, _, _)
SubB(x, y, b) ==
    IF x = <<>> THEN <<>>
    ELSE LET s == Head(x) - (IF y = <<>> THEN 0 ELSE Head(y)) - b
         IN  <<(s + Base) % Base>> \o SubB(Tail(x),
                                           IF y = <<>> THEN y ELSE Tail(y),
                                           IF s < 0 THEN 1 ELSE 0)

RECURSIVE LessFrom(_, _, _)
\* Compare two amounts of equal length from limb i downwards.
LessFrom(x, y, i) ==
    IF i = 0 THEN FALSE
    ELSE IF x[i] # y[i] THEN x[i] < y[i]
    ELSE LessFrom(x, y, i - 1)

\* x < y
Less(x, y) ==
    IF Len(x) # Len(y) THEN Len(x) < Len(y) ELSE LessFrom(x, y, Len(x))

\* x <= y
Leq(x, y) == ~Less(y, x)

\* abs(x - y)
AbsDiff(x, y) == IF Less(x, y) THEN Norm(SubB(y, x, 0)) ELSE Norm(SubB(x, y, 0))

RECURSIVE MulC(_, _, _)
MulC(x, n, c) ==
    IF x = <<>> THEN (IF c = 0 THEN <<>> ELSE <<c % Base>> \o MulC(x, n, c \div Base))
    ELSE LET s == Head(x) * n + c
         IN  <<s % Base>> \o MulC(Tail(x), n, s \div Base)

\* x * n for a small natural n (exact)
MulSmall(x, n) == Norm(MulC(x, n, 0))

RECURSIVE DivRem(_, _, _)
\* Long division of x by a small natural m, most significant limb first,
\* with r the remainder carried in.
DivRem(x, m, r) ==
    IF x = <<>> THEN [q |-> <<>>, r |-> r]
    ELSE LET cur  == r * Base + x[Len(x)]
             rest == DivRem(SubSeq(x, 1, Len(x) - 1), m, cur % m)
         IN  [q |-> Append(rest.q, cur \div m), r |-> rest.r]

IsOdd(x) == x # <<>> /\ x[1] % 2 = 1

\* x / m rounded to the nearest amount, ties to even
DivRound(x, m) ==
    LET d == DivRem(x, m, 0)
        q == Norm(d.q)
    IN  IF 2 * d.r > m \/ (2 * d.r = m /\ IsOdd(q)) THEN Add(q, <<1>>) ELSE q

\* x * (num / den), one float multiplication
MulRate(x, num, den) == DivRound(MulSmall(x, num), den)

\* The amount of a whole number of cents.
FromCents(c) == Norm(<<0, 0>> \o MulSmall(<<1>>, c))

\* Limb i of x, zero beyond its length.
Limb(x, i) == IF i <= Len(x) THEN x[i] ELSE 0

\* The part of an amount below one cent, as a number of 1e-10 units.
SubCent(x) == Limb(x, 1) + Base * Limb(x, 2)

\* The whole cents of an amount, as limbs.
WholeCents(x) == IF Len(x) <= CentLimbs THEN <<>> ELSE SubSeq(x, CentLimbs + 1, Len(x))

HalfCent == (Base * Base) \div 2

\* Mutant of Round2: the digits below the cent are cut off, not rounded.
Round2_Truncate(x) == Norm(<<0, 0>> \o WholeCents(x))

\* round(x, 2): to the nearest cent, ties to even
Round2(x) ==
    LET lo == SubCent(x)
        hi == WholeCents(x)
        up == lo > HalfCent \/ (lo = HalfCent /\ IsOdd(hi))
    IN  Norm(<<0, 0>> \o (IF up THEN Add(hi, <<1>>) ELSE hi))

\* ------------------------------------------------------------------------
\* Inputs
\* ------------------------------------------------------------------------

\* A rate, the decimal literal n/d.
Rate(n, d) == [n |-> n, d |-> d]

\* Largest max_iter a direct caller of compute_final_price passes.
MaxIter == 3

\* Largest LABOR_HOURS edited into the module besides the shipped value.
MaxHours == 1

\* Defaults of compute_final_price: tol=1e-6, max_iter=1000.
DefaultTol == <<0, 1>>
DefaultMaxIter == 1000

\* LABOR_RATE = 80.0 $/hr, in cents.
LABOR_RATE == 8000

\* LABOR_HOURS = 20 as shipped.
ShippedHours == 20

\* Marks a material row whose "line_total" key has not been set.
NoTotal == -1

Item(q, c) == [qty |-> q, unit_cost |-> c, line_total |-> NoTotal]

\* MATERIALS as shipped: 1 x 1200.00 and 50 x 40.00 (unit costs in cents).
ShippedMaterials == <<Item(1, 120000), Item(50, 4000)>>

\* The edits of MATERIALS explored: shipped, emptied, one free row, one
\* five-cent row.
MaterialChoices == {ShippedMaterials, <<>>, <<Item(1, 0)>>, <<Item(1, 5)>>}

HourChoices == (0..MaxHours) \cup {ShippedHours}

\* The shipped cost parameters: TAX_RATE, OVERHEAD_RATE, PROFIT_MARGIN,
\* COMMISSION_RATE.
ShippedRates ==
    [tax |-> Rate(913, 10000), overhead |-> Rate(6666, 10000),
     margin |-> Rate(23, 100), commission |-> Rate(20, 100)]

\* The edits of the cost parameters explored for runs of main.
MainRateChoices ==
    { ShippedRates,
      [tax |-> Rate(0, 1), overhead |-> Rate(0, 1),
       margin |-> Rate(0, 1), commission |-> Rate(20, 100)],
      [tax |-> Rate(0, 1), overhead |-> Rate(0, 1),
       margin |-> Rate(1, 2), commission |-> Rate(1, 1)] }

\* Arguments a direct caller passes.
TaxChoices        == {Rate(0, 1), Rate(913, 10000)}
OverheadChoices   == {Rate(0, 1), Rate(6666, 10000)}
MarginChoices     == {Rate(0, 1), Rate(23, 100), Rate(1, 2), Rate(9, 10), Rate(1, 1)}
CommissionChoices == {Rate(20, 100), Rate(1, 1)}
CostChoices       == {FromCents(0), FromCents(5), FromCents(320000)}
LaborChoices      == {FromCents(0), FromCents(160000)}
TolChoices        == {Zero, DefaultTol, FromCents(100)}
IterChoices       == 0..MaxIter

\* ------------------------------------------------------------------------
\* State
\* ------------------------------------------------------------------------

VARIABLES
    caller,           \* "main" or "direct": who invokes compute_final_price
    pc,               \* position in main / compute_final_price, or the exception raised
    MATERIALS,        \* module-level list of rows
    LABOR_HOURS,      \* module-level constant
    idx,              \* position of the loop over MATERIALS (line 83)
    raw_total,        \* main's locals
    labor_base,
    material_cost,    \* arguments of compute_final_price
    labor_cost,
    tax_rate,
    overhead_rate,
    profit_margin,
    commission_rate,
    tol,
    max_iter,
    taxed_material,   \* locals of compute_final_price
    price,
    profit,
    commission,
    total_labor,
    base_cost,
    overhead,
    total_cost,
    new_price,
    iter,             \* iterations of the for loop begun
    gap,              \* last value of abs(new_price - price) at line 49
    tests,            \* evaluations of the test at line 49
    hits,             \* evaluations of the test at line 49 that were true
    result,           \* <<>> or the returned <<final_price, breakdown>>
    stages,           \* main's stages completed, in order
    stdout,           \* sections printed
    pdf               \* whether customer_pricing.pdf was written

args   == <<material_cost, labor_cost, tax_rate, overhead_rate, profit_margin,
            commission_rate, tol, max_iter>>
locals == <<taxed_material, price, profit, commission, total_labor, base_cost,
            overhead, total_cost, new_price, iter, gap, tests, hits>>
mainv  == <<MATERIALS, LABOR_HOURS, idx, raw_total, labor_base, stages, stdout, pdf>>
vars   == <<caller, pc, args, locals, mainv, result>>

\* A local or argument not yet bound.
Unbound == <<-1>>

InitLocals ==
    /\ taxed_material = Unbound /\ price = Unbound /\ profit = Unbound
    /\ commission = Unbound /\ total_labor = Unbound /\ base_cost = Unbound
    /\ overhead = Unbound /\ total_cost = Unbound /\ new_price = Unbound
    /\ iter = 0 /\ gap = Unbound /\ tests = 0 /\ hits = 0
    /\ result = <<>>

\* A run of the program: the module constants as edited, main about to start.
InitMain ==
    /\ caller = "main" /\ pc = "main"
    /\ MATERIALS \in MaterialChoices
    /\ LABOR_HOURS \in HourChoices
    /\ \E r \in MainRateChoices :
          /\ tax_rate = r.tax /\ overhead_rate = r.overhead
          /\ profit_margin = r.margin /\ commission_rate = r.commission
    /\ tol = DefaultTol /\ max_iter = DefaultMaxIter
    /\ material_cost = Unbound /\ labor_cost = Unbound

\* compute_final_price called on its own with explicit arguments.
InitDirect ==
    /\ caller = "direct" /\ pc = "call"
    /\ MATERIALS = <<>> /\ LABOR_HOURS = 0
    /\ material_cost \in CostChoices /\ labor_cost \in LaborChoices
    /\ tax_rate \in TaxChoices /\ overhead_rate \in OverheadChoices
    /\ profit_margin \in MarginChoices /\ commission_rate \in CommissionChoices
    /\ tol \in TolChoices /\ max_iter \in IterChoices

Init ==
    /\ InitMain \/ InitDirect
    /\ InitLocals
    /\ idx = 0 /\ raw_total = Unbound /\ labor_base = Unbound
    /\ stages = <<>> /\ stdout = <<>> /\ pdf = FALSE

\* ------------------------------------------------------------------------
\* compute_final_price
\* ------------------------------------------------------------------------

\* Lines 39-40: taxed_material and the initial guess.
Enter ==
    /\ pc = "call"
    /\ taxed_material' = MulRate(material_cost, tax_rate.d + tax_rate.n, tax_rate.d)
    /\ price' = Add(taxed_material', labor_cost)
    /\ pc' = "loop"
    /\ UNCHANGED <<caller, args, mainv, result, profit, commission, total_labor,
                   base_cost, overhead, total_cost, new_price, iter, gap, tests, hits>>

\* Mutant of Costs: the commission is taken on the price, not on the profit.
Costs_CommissionOnPrice(p) ==
    LET pr == MulRate(p, profit_margin.n, profit_margin.d)
        co == MulRate(p, commission_rate.n, commission_rate.d)
        tl == Add(labor_cost, co)
        bc == Add(taxed_material, tl)
        ov == MulRate(bc, overhead_rate.n, overhead_rate.d)
    IN  [profit |-> pr, commission |-> co, total_labor |-> tl, base_cost |-> bc,
         overhead |-> ov, total_cost |-> Add(bc, ov)]

\* Lines 42-47: the cost chain of one loop iteration from price p.
Costs(p) ==
    LET pr == MulRate(p, profit_margin.n, profit_margin.d)
        co == MulRate(pr, commission_rate.n, commission_rate.d)
        tl == Add(labor_cost, co)
        bc == Add(taxed_material, tl)
        ov == MulRate(bc, overhead_rate.n, overhead_rate.d)
    IN  [profit |-> pr, commission |-> co, total_labor |-> tl, base_cost |-> bc,
         overhead |-> ov, total_cost |-> Add(bc, ov)]

\* Mutant of NewPrice: total_cost * (1 - profit_margin), a markup on cost
\* instead of a margin on price.
NewPrice_Multiply(tc) == MulRate(tc, profit_margin.d - profit_margin.n, profit_margin.d)

\* Line 48: total_cost / (1 - profit_margin), for profit_margin # 1.
NewPrice(tc) == MulRate(tc, profit_margin.d, profit_margin.d - profit_margin.n)

\* Mutant of Converged: the comparison is turned around.
Converged_Inverted(np, p) == Less(tol, AbsDiff(np, p))

\* Line 49: abs(new_price - price) < tol.
Converged(np, p) == Less(AbsDiff(np, p), tol)

\* Mutant of AfterTest: the loop breaks when the test fails.
AfterTest_Inverted(conv) == IF conv THEN "loop" ELSE "final"

\* Mutant of AfterTest: the break of line 51 is missing.
AfterTest_NoBreak(conv) == "loop"

\* Where the loop goes after the test of line 49 came out as conv.
AfterTest(conv) == IF conv THEN "final" ELSE "loop"

\* Mutant of LoopContinues: range(max_iter + 1).
LoopContinues_OffByOne == iter <= max_iter

\* Line 41: for _ in range(max_iter) has another iteration to run.
LoopContinues == iter < max_iter

\* Lines 41-52: one iteration of the for loop.
Iterate ==
    /\ pc = "loop"
    /\ LoopContinues
    /\ iter' = iter + 1
    /\ LET c == Costs(price) IN
        /\ profit' = c.profit
        /\ commission' = c.commission
        /\ total_labor' = c.total_labor
        /\ base_cost' = c.base_cost
        /\ overhead' = c.overhead
        /\ total_cost' = c.total_cost
        /\ IF profit_margin.d = profit_margin.n
           THEN \* 1 - profit_margin is 0.0: float division by zero
                /\ pc' = "ZeroDivisionError"
                /\ UNCHANGED <<new_price, price, gap, tests, hits>>
           ELSE LET np == NewPrice(c.total_cost) IN
                /\ new_price' = np
                /\ gap' = AbsDiff(np, price)
                /\ tests' = tests + 1
                /\ hits' = IF Converged(np, price) THEN hits + 1 ELSE hits
                /\ price' = np
                /\ pc' = AfterTest(Converged(np, price))
    /\ UNCHANGED <<caller, args, mainv, result, taxed_material>>

\* Mutant of Exhausted: the else clause of the loop does not raise, and the
\* function goes on to the final breakdown.
Exhausted_FallThrough ==
    /\ pc = "loop"
    /\ ~LoopContinues
    /\ pc' = "final"
    /\ UNCHANGED <<caller, args, locals, mainv, result>>

\* Lines 53-54: the for loop ran out, raise RuntimeError("Convergence failed").
Exhausted ==
    /\ pc = "loop"
    /\ ~LoopContinues
    /\ pc' = "RuntimeError"
    /\ UNCHANGED <<caller, args, locals, mainv, result>>

\* Mutant of FinalCosts: the overhead is taken on the labor alone.
FinalCosts_OverheadOnLabor(p) ==
    LET pr == MulRate(p, profit_margin.n, profit_margin.d)
        co == MulRate(pr, commission_rate.n, commission_rate.d)
        tl == Add(labor_cost, co)
        bc == Add(taxed_material, tl)
        ov == MulRate(tl, overhead_rate.n, overhead_rate.d)
    IN  [profit |-> pr, commission |-> co, total_labor |-> tl, base_cost |-> bc,
         overhead |-> ov, total_cost |-> Add(bc, ov)]

\* Lines 57-62: the cost chain recomputed from the accepted price p.
FinalCosts(p) ==
    LET pr == MulRate(p, profit_margin.n, profit_margin.d)
        co == MulRate(pr, commission_rate.n, commission_rate.d)
        tl == Add(labor_cost, co)
        bc == Add(taxed_material, tl)
        ov == MulRate(bc, overhead_rate.n, overhead_rate.d)
    IN  [profit |-> pr, commission |-> co, total_labor |-> tl, base_cost |-> bc,
         overhead |-> ov, total_cost |-> Add(bc, ov)]

\* Lines 64-74: the breakdown, in key order, each value rounded on its own.
Breakdown(c, p) ==
    << <<"Material Raw",   Round2(material_cost)>>,
       <<"Material Taxed", Round2(taxed_material)>>,
       <<"Labor Base",     Round2(labor_cost)>>,
       <<"Commission",     Round2(c.commission)>>,
       <<"Labor Total",    Round2(c.total_labor)>>,
       <<"Overhead",       Round2(c.overhead)>>,
       <<"Total Cost",     Round2(c.total_cost)>>,
       <<"Profit",         Round2(c.profit)>>,
       <<"Final Price",    Round2(p)>> >>

\* Lines 56-75: final breakdown and return.
Finalize ==
    /\ pc = "final"
    /\ LET c == FinalCosts(price) IN
        /\ profit' = c.profit
        /\ commission' = c.commission
        /\ total_labor' = c.total_labor
        /\ base_cost' = c.base_cost
        /\ overhead' = c.overhead
        /\ total_cost' = c.total_cost
        /\ result' = <<Round2(price), Breakdown(c, price)>>
    /\ pc' = IF caller = "main" THEN "print" ELSE "returned"
    /\ UNCHANGED <<caller, args, mainv, taxed_material, price, new_price, iter,
                   gap, tests, hits>>

\* ------------------------------------------------------------------------
\* main
\* ------------------------------------------------------------------------

\* Mutant of IsEmpty: the test is MATERIALS is None, which no list is.
IsEmpty_NoneOnly(m) == FALSE

\* Line 79: not MATERIALS.
IsEmpty(m) == m = <<>>

\* Lines 79-80: the empty check.
CheckMaterials ==
    /\ pc = "main"
    /\ IF IsEmpty(MATERIALS)
       THEN pc' = "ValueError" /\ idx' = idx
       ELSE pc' = "line_totals" /\ idx' = 1
    /\ UNCHANGED <<caller, args, locals, result, MATERIALS, LABOR_HOURS, raw_total,
                   labor_base, stages, stdout, pdf>>

\* Lines 83-84: itm["line_total"] = itm["qty"] * itm["unit_cost"].
LineTotal ==
    /\ pc = "line_totals"
    /\ idx <= Len(MATERIALS)
    /\ MATERIALS' = [MATERIALS EXCEPT
                       ![idx].line_total = MATERIALS[idx].qty * MATERIALS[idx].unit_cost]
    /\ idx' = idx + 1
    /\ UNCHANGED <<caller, pc, args, locals, result, LABOR_HOURS, raw_total,
                   labor_base, stages, stdout, pdf>>

RECURSIVE SumLineTotals(_)
\* Line 86: sum(i["line_total"] for i in MATERIALS), in cents.
SumLineTotals(m) ==
    IF m = <<>> THEN 0 ELSE Head(m).line_total + SumLineTotals(Tail(m))

\* Lines 86-87: raw_total and labor_base.
Totals ==
    /\ pc = "line_totals"
    /\ idx > Len(MATERIALS)
    /\ raw_total' = FromCents(SumLineTotals(MATERIALS))
    /\ labor_base' = FromCents(LABOR_HOURS * LABOR_RATE)
    /\ stages' = Append(stages, "line_totals")
    /\ pc' = "invoke"
    /\ UNCHANGED <<caller, args, locals, result, MATERIALS, LABOR_HOURS, idx,
                   stdout, pdf>>

\* Line 88: compute_final_price(raw_total, labor_base), the rest defaulted.
Invoke ==
    /\ pc = "invoke"
    /\ material_cost' = raw_total
    /\ labor_cost' = labor_base
    /\ stages' = Append(stages, "resolver")
    /\ pc' = "call"
    /\ UNCHANGED <<caller, tax_rate, overhead_rate, profit_margin, commission_rate,
                   tol, max_iter, locals, result, MATERIALS, LABOR_HOURS, idx,
                   raw_total, labor_base, stdout, pdf>>

\* Lines 90-97: the console preview.
PrintReport ==
    /\ pc = "print"
    /\ stdout' = stdout \o <<"Materials", "Breakdown">>
    /\ stages' = Append(stages, "print")
    /\ pc' = "build_pdf"
    /\ UNCHANGED <<caller, args, locals, result, MATERIALS, LABOR_HOURS, idx,
                   raw_total, labor_base, pdf>>

\* Lines 99-140: the document is built and written, then its path printed.
BuildPdf ==
    /\ pc = "build_pdf"
    /\ pdf' = TRUE
    /\ stdout' = Append(stdout, "PDF saved")
    /\ stages' = Append(stages, "render")
    /\ pc' = "done"
    /\ UNCHANGED <<caller, args, locals, result, MATERIALS, LABOR_HOURS, idx,
                   raw_total, labor_base>>

\* Line 139: doc.build fails to write the file; the error propagates.
BuildFails ==
    /\ pc = "build_pdf"
    /\ pc' = "OSError"
    /\ UNCHANGED <<caller, args, locals, result, mainv>>

Next ==
    \/ Enter
    \/ Iterate
    \/ Exhausted
    \/ Finalize
    \/ CheckMaterials
    \/ LineTotal
    \/ Totals
    \/ Invoke
    \/ PrintReport
    \/ BuildPdf
    \/ BuildFails

Spec == Init /\ [][Next]_vars

\* ------------------------------------------------------------------------
\* Properties
\* ------------------------------------------------------------------------

\* The loop was left through the break of line 51.
Accepted == pc \in {"final", "returned", "print", "build_pdf", "done", "OSError"}

\* The for loop is over, by break or by exhaustion.
LoopOver == Accepted \/ pc = "RuntimeError"

\* compute_final_price has returned.
Returned == result # <<>>

FinalPrice == result[1]

\* The value the returned breakdown holds at position i.
BreakdownValue(i) == result[2][i][2]

\* 0 <= profit_margin < 1
MarginBelowOne == profit_margin.n < profit_margin.d

\* tol > 0
TolPositive == Less(Zero, tol)

\* The recurrence new_price = a + k * price has factor
\* k = profit_margin * commission_rate * (1 + overhead_rate) / (1 - profit_margin);
\* this is k < 1.
Contraction ==
    profit_margin.n * commission_rate.n * (overhead_rate.d + overhead_rate.n)
      < (profit_margin.d - profit_margin.n) * commission_rate.d * overhead_rate.d

\* abs(f(price) - price) for one more iteration step f from the current price.
NextGap == AbsDiff(NewPrice(Costs(price).total_cost), price)

C2_FailsExactlyWhenNoIterationPasses ==
    /\ pc = "RuntimeError" => tests = max_iter /\ hits = 0 /\ ~Returned
    /\ (LoopOver /\ tests = max_iter /\ hits = 0) => pc = "RuntimeError"
    /\ hits <= 1
    /\ hits = 1 => Accepted /\ Less(gap, tol)
    /\ Accepted => hits = 1
    /\ (Accepted /\ pc # "final") => Returned
    /\ pc \in {"loop", "ZeroDivisionError"} => hits = 0 /\ ~Returned

\* The convergence error after several failed tests.
C2_Witness == pc = "RuntimeError" /\ tests >= 2 /\ ~Returned

\* C3: with max_iter = 0 the call ends in the convergence error and the
\* test of line 49 is never evaluated, no iteration step being executed.
C3_ZeroIterationsFails ==
    max_iter = 0 =>
        /\ pc \in {"call", "loop", "RuntimeError"}
        /\ iter = 0 /\ tests = 0 /\ gap = Unbound /\ new_price = Unbound
        /\ ~Returned

\* The failure with max_iter = 0, here with profit_margin = 1.
C3_Witness == max_iter = 0 /\ pc = "RuntimeError" /\ ~MarginBelowOne

\* C4: with MATERIALS empty, main ends in the empty-materials error before
\* anything is computed: no totals, no call of compute_final_price, no
\* output.
C4_EmptyMaterialsAbortFirst ==
    (caller = "main" /\ MATERIALS = <<>>) =>
        /\ pc \in {"main", "ValueError"}
        /\ raw_total = Unbound /\ labor_base = Unbound
        /\ material_cost = Unbound /\ labor_cost = Unbound
        /\ taxed_material = Unbound /\ price = Unbound
        /\ iter = 0 /\ tests = 0 /\ ~Returned
        /\ stages = <<>> /\ stdout = <<>> /\ ~pdf

C4_Witness == caller = "main" /\ MATERIALS = <<>> /\ pc = "ValueError"

\* The call or run has ended, normally or by an exception.
Ended ==
    pc \in {"returned", "done", "RuntimeError", "ZeroDivisionError", "ValueError",
            "OSError"}

ZeroCosts == material_cost = Zero /\ labor_cost = Zero

\* C5 as stated: with material_cost = 0 and labor_cost = 0 the call returns
\* final_price = 0 whatever the rates, tol and max_iter.
C5_ZeroCostsAlwaysZero ==
    (ZeroCosts /\ Ended) => (Returned /\ FinalPrice = Zero)

\* C5 amended: with material_cost = 0 and labor_cost = 0, whenever
\* profit_margin < 1, tol > 0 and max_iter >= 1 the first iteration passes
\* the test and the call returns final_price = 0; no call with zero costs
\* returns anything else; with max_iter = 0 or tol = 0 and profit_margin < 1 the call
\* raises the convergence error instead.
C5_ZeroCostsZeroWhenIterating ==
    ZeroCosts =>
        /\ (MarginBelowOne /\ TolPositive /\ max_iter >= 1 /\ LoopOver) =>
              Accepted /\ tests = 1 /\ price = Zero
        /\ (MarginBelowOne /\ TolPositive /\ max_iter >= 1 /\ Ended) =>
              Returned
        /\ Returned => FinalPrice = Zero
        /\ (MarginBelowOne /\ (max_iter = 0 \/ tol = Zero) /\ Ended) =>
              pc = "RuntimeError"

\* Zero costs with non-zero rates returning a zero price.
C5_Witness ==
    /\ ZeroCosts /\ Returned /\ FinalPrice = Zero
    /\ profit_margin.n > 0 /\ overhead_rate.n > 0 /\ tax_rate.n > 0

\* A step that runs the test of line 49 when an earlier iteration already ran it.
LaterIteration == gap # Unbound /\ tests' = tests + 1

\* k * g for the factor k of the recurrence, rate by rate.
KTimes(g) ==
    MulRate(MulRate(MulRate(MulRate(g, profit_margin.n, profit_margin.d),
                            commission_rate.n, commission_rate.d),
                    overhead_rate.d + overhead_rate.n, overhead_rate.d),
            profit_margin.d, profit_margin.d - profit_margin.n)

\* What the roundings of one iteration can add to a gap: 2e-9.
RoundingSlack == <<20>>

\* C6 as stated: with 0 <= profit_margin < 1 and overhead_rate >= 0 the gap
\* abs(new_price - price) never grows from one iteration to the next.
C6_GapNeverGrows ==
    [][(MarginBelowOne /\ LaterIteration) => Leq(gap', gap)]_vars

\* C6 amended: when moreover profit_margin * commission_rate *
\* (1 + overhead_rate) < 1 - profit_margin, the gap never grows from one
\* iteration to the next, strictly shrinks while positive, and is at most k
\* times the previous gap (up to rounding in the last digits), so it falls
\* below any positive tolerance given enough iterations.
C6_GapShrinksUnderContraction ==
    [][(MarginBelowOne /\ Contraction /\ LaterIteration) =>
          /\ Leq(gap', gap)
          /\ Less(Zero, gap) => Less(gap', gap)
          /\ Leq(gap', Add(KTimes(gap), RoundingSlack))]_vars

\* Three iterations of a contracting recurrence with a gap still positive.
C6_Witness ==
    /\ MarginBelowOne /\ Contraction /\ profit_margin.n > 0
    /\ tests >= 3 /\ Less(Zero, gap)

\* The Scenario A inputs: the module as shipped, run through main.
ScenarioA ==
    /\ caller = "main"
    /\ Len(MATERIALS) = 2
    /\ MATERIALS[1].qty = 1  /\ MATERIALS[1].unit_cost = 120000
    /\ MATERIALS[2].qty = 50 /\ MATERIALS[2].unit_cost = 4000
    /\ LABOR_HOURS = ShippedHours
    /\ tax_rate = ShippedRates.tax /\ overhead_rate = ShippedRates.overhead
    /\ profit_margin = ShippedRates.margin
    /\ commission_rate = ShippedRates.commission

\* x / (1 - 0.23)
OverScenarioMargin(x) == MulRate(x, 100, 77)

\* C7 as stated: on the Scenario A inputs the call converges and the
\* returned final price and the returned Total Cost satisfy
\* final_price = total_cost / (1 - 0.23) to within 1e-6.
C7_ReturnedValuesSelfConsistent ==
    ScenarioA =>
        /\ pc # "RuntimeError"
        /\ Returned =>
              Less(AbsDiff(FinalPrice, OverScenarioMargin(BreakdownValue(7))),
                   DefaultTol)

\* C7 amended: on the Scenario A inputs the call converges without error, in
\* 11 iterations; the unrounded accepted price and the unrounded recomputed
\* total_cost satisfy price = total_cost / (1 - 0.23) to within 1e-6; the
\* returned values, rounded to cents, are 12240.23 and 9424.97 and satisfy
\* the equation only to within one cent.
C7_UnroundedSelfConsistent ==
    ScenarioA =>
        /\ pc \notin {"RuntimeError", "ZeroDivisionError", "ValueError"}
        /\ iter <= 11
        /\ pc = "invoke" => raw_total = FromCents(320000) /\ labor_base = FromCents(160000)
        /\ Returned =>
              /\ tests = 11
              /\ Less(AbsDiff(price, OverScenarioMargin(total_cost)), DefaultTol)
              /\ FinalPrice = FromCents(1224023)
              /\ BreakdownValue(7) = FromCents(942497)
              /\ Leq(AbsDiff(FinalPrice, OverScenarioMargin(BreakdownValue(7))),
                     FromCents(1))

C7_Witness == ScenarioA /\ pc = "done" /\ Returned

\* The unrounded counterparts of the breakdown values, in key order.
Unrounded ==
    <<material_cost, taxed_material, labor_cost, commission, total_labor,
      overhead, total_cost, profit, price>>

\* 0.005
HalfCentAmount == <<HalfCent % Base, HalfCent \div Base>>

\* C8: on every return each of the nine breakdown values and the returned
\* final price is a whole number of cents within 0.005 of its own unrounded
\* counterpart.
C8_RoundedWithinHalfCent ==
    Returned =>
        /\ Len(result[2]) = 9
        /\ \A i \in 1..9 :
              /\ SubCent(BreakdownValue(i)) = 0
              /\ Leq(AbsDiff(BreakdownValue(i), Unrounded[i]), HalfCentAmount)
        /\ SubCent(FinalPrice) = 0
        /\ Leq(AbsDiff(FinalPrice, price), HalfCentAmount)

\* A return where the price is rounded up and the total cost rounded down.
C8_Witness ==
    /\ Returned
    /\ SubCent(price) > HalfCent
    /\ SubCent(total_cost) > 0 /\ SubCent(total_cost) < HalfCent

\* The step that recomputes the cost chain and returns (lines 56-75).
FinalStep == pc = "final" /\ pc' # "final"

SameChain ==
    /\ profit' = profit /\ commission' = commission
    /\ total_labor' = total_labor /\ base_cost' = base_cost
    /\ overhead' = overhead /\ total_cost' = total_cost

\* C9 as stated: the final recomputation is redundant, it leaves profit,
\* commission, total_labor, overhead and total_cost as the last loop
\* iteration set them.
C9_RecomputationRedundant == [][FinalStep => SameChain]_vars

\* C9 amended: the final recomputation takes the accepted price (the last
\* new_price) while the last loop iteration took the price before it; the
\* values coincide when that iteration left the price unchanged (gap 0) or
\* profit_margin is 0, and otherwise the profit differs by about
\* profit_margin * gap (less than tol), so the recomputation is not
\* redundant in general.
C9_RecomputationFromAcceptedPrice ==
    [][FinalStep =>
          /\ price = new_price
          /\ profit' = MulRate(new_price, profit_margin.n, profit_margin.d)
          /\ total_cost' = Add(base_cost', overhead')
          /\ (gap = Zero \/ profit_margin.n = 0) => SameChain
          /\ Less(AbsDiff(profit', profit), tol)]_vars

\* A return after an iteration that left a non-zero price unchanged.
C9_Witness ==
    /\ Returned /\ gap = Zero /\ Less(Zero, price) /\ tests >= 2
    /\ overhead_rate.n > 0

FullRun == <<"line_totals", "resolver", "print", "render">>

\* C10: in every run of main the stages happen at most once and in the order
\* line totals, resolver, console report, document; report and document come
\* only after the resolver returned a converged price; a run whose resolver
\* fails ends in the error with nothing printed and no document.
C10_SinglePassInOrder ==
    caller = "main" =>
        /\ Len(stages) <= Len(FullRun)
        /\ stages = SubSeq(FullRun, 1, Len(stages))
        /\ (stdout # <<>> \/ pdf) => (Returned /\ hits = 1)
        /\ (Len(stages) >= 3) <=> (stdout # <<>>)
        /\ (Len(stages) = 4) <=> pdf
        /\ pdf <=> pc = "done"
        /\ Len(stages) >= 2 => \A i \in 1..Len(MATERIALS) : MATERIALS[i].line_total # NoTotal
        /\ pc \in {"RuntimeError", "ZeroDivisionError", "ValueError"} =>
              stdout = <<>> /\ ~pdf /\ ~Returned

\* A run of main whose resolver failed to converge.
C10_Witness == caller = "main" /\ pc = "RuntimeError" /\ stages = <<"line_totals", "resolver">>

====
